---------------------------- MODULE Spec2Model ----------------------------
(***************************************************************************)
(* A model of the simple-matrix crate: the row-major Matrix<T> container   *)
(* (src/src/matrix.rs) and its arithmetic operators                         *)
(* (src/src/matrix/std_ops.rs).                                             *)
(*                                                                         *)
(* A matrix is a record [rows, cols, data]; data is the backing Vec<T>,    *)
(* flat offset k of the Vec being data[k + 1].  An element of T is a       *)
(* normalised fraction <<n, d>> (d > 0, gcd(n, d) = 1).  Two element types *)
(* are modelled: "rat", an exact rational type whose division is exact,    *)
(* and "int", a primitive integer type whose division truncates toward     *)
(* zero (every element then has d = 1).  A panic is the result             *)
(* [kind |-> "panic"].                                                     *)
(***************************************************************************)
EXTENDS Integers, Sequences, FiniteSets, TLC

\* Largest number of rows and of columns of a matrix an operation is given.
MaxDim == 2

--------------------------------------------------------------------------
(* The element type T: Zero, One, Add, Sub, Mul, Div, Neg, is_zero. *)

Abs(x) == IF x < 0 THEN -x ELSE x

Min(a, b) == IF a < b THEN a ELSE b

RECURSIVE Gcd(_, _)
Gcd(a, b) == IF b = 0 THEN a ELSE Gcd(b, a % b)

\* the fraction n/d (d # 0) in lowest terms with a positive denominator
Frac(n, d) ==
    LET g == Gcd(Abs(n), Abs(d))
        s == IF d < 0 THEN -1 ELSE 1
    IN  <<(s * n) \div g, (s * d) \div g>>

\* integer division as the primitive integer types do it: toward zero
TruncDiv(a, b) ==
    LET q == Abs(a) \div Abs(b)
    IN  IF (a < 0) = (b < 0) THEN q ELSE -q

Zero == <<0, 1>>

One == <<1, 1>>

IsZero(a) == a[1] = 0

EAdd(a, b) == Frac(a[1] * b[2] + b[1] * a[2], a[2] * b[2])

ESub(a, b) == Frac(a[1] * b[2] - b[1] * a[2], a[2] * b[2])

EMul(a, b) == Frac(a[1] * b[1], a[2] * b[2])

ENeg(a) == <<-a[1], a[2]>>

\* a / b for b # 0, in element type ty
EDiv(ty, a, b) ==
    IF ty = "int" THEN <<TruncDiv(a[1], b[1]), 1>>
    ELSE Frac(a[1] * b[2], a[2] * b[1])

\* the element of T with integer value n
E(n) == <<n, 1>>

--------------------------------------------------------------------------
(* Results: Option<_>, bool, a fresh Matrix<T>, () and a panic. *)

Panic == [kind |-> "panic"]

None == [kind |-> "none"]

Some(v) == [kind |-> "some", val |-> v]

Bool(b) == [kind |-> "bool", val |-> b]

Built(M) == [kind |-> "matrix", val |-> M]

Unit == [kind |-> "unit"]

Mat(r, c, d) == [rows |-> r, cols |-> c, data |-> d]

--------------------------------------------------------------------------
(* Construction: from_iter, zero.  A source is an iterator: the unbounded  *)
(* range 0.., the unbounded stream of T::zero(), or a finite sequence.     *)

\* data.into_iter().take(n).collect()
take(src, n) ==
    CASE src.kind = "count" -> [k \in 1..n |-> E(k - 1)]
      [] src.kind = "zeros" -> [k \in 1..n |-> Zero]
      [] OTHER -> SubSeq(src.items, 1, Min(n, Len(src.items)))

\* from_iter without the assertion on the number of items collected
from_iter_unchecked_len(rows, cols, src) ==
    IF ~(rows > 0 /\ cols > 0) THEN Panic
    ELSE Built(Mat(rows, cols, take(src, rows * cols)))

\* from_iter without the assertion on rows and cols
from_iter_unchecked_dims(rows, cols, src) ==
    LET data == take(src, rows * cols)
    IN  IF Len(data) # rows * cols THEN Panic
        ELSE Built(Mat(rows, cols, data))

from_iter(rows, cols, src) ==
    IF ~(rows > 0 /\ cols > 0) THEN Panic
    ELSE LET data == take(src, rows * cols)
         IN  IF Len(data) # rows * cols THEN Panic
             ELSE Built(Mat(rows, cols, data))

zero(rows, cols) == from_iter(rows, cols, [kind |-> "zeros"])

\* values.into_iter().flatten(): the items of the inner arrays, one array
\* after the other
RECURSIVE flatten(_)
flatten(values) ==
    IF Len(values) = 0 THEN <<>> ELSE Head(values) \o flatten(Tail(values))

\* Matrix::new::<R, C>(values), values: [[T; R]; C], an array of C inner
\* arrays of R items each
new(R, C, values) == from_iter(R, C, [kind |-> "items", items |-> flatten(values)])

--------------------------------------------------------------------------
(* Checked access.  A reference into the backing Vec is modelled as the    *)
(* flat offset it points at; Deref reads through it, Write writes.         *)

\* self.data[k]: a reference to the element at flat offset k, or a panic
VecAt(M, k) == IF k < Len(M.data) THEN Some(k) ELSE Panic

Deref(M, k) == M.data[k + 1]

Write(M, k, v) == [M EXCEPT !.data[k + 1] = v]

get_ref(M, row, col) ==
    IF row < M.rows /\ col < M.cols
    THEN VecAt(M, col + row * M.cols)
    ELSE None

get_mut(M, row, col) ==
    IF row < M.rows /\ col < M.cols
    THEN VecAt(M, col + row * M.cols)
    ELSE None

\* get with the offset of a column-major layout
get_colmajor(M, row, col) ==
    IF row < M.rows /\ col < M.cols
    THEN LET at == VecAt(M, row + col * M.rows)
         IN  IF at.kind = "some" THEN Some(Deref(M, at.val)) ELSE Panic
    ELSE None

\* get clones the element: the result holds the value, not a reference
get(M, row, col) ==
    IF row < M.rows /\ col < M.cols
    THEN LET at == VecAt(M, col + row * M.cols)
         IN  IF at.kind = "some" THEN Some(Deref(M, at.val)) ELSE Panic
    ELSE None

\* set that reports success whatever get_mut found
set_always_true(M, row, col, value) ==
    LET cell == get_mut(M, row, col)
    IN  CASE cell.kind = "some" -> [m |-> Write(M, cell.val, value), out |-> Bool(TRUE)]
          [] OTHER -> [m |-> M, out |-> Bool(TRUE)]

\* set returns the matrix after the call and the value returned
set(M, row, col, value) ==
    LET cell == get_mut(M, row, col)
    IN  CASE cell.kind = "some" -> [m |-> Write(M, cell.val, value), out |-> Bool(TRUE)]
          [] cell.kind = "none" -> [m |-> M, out |-> Bool(FALSE)]
          [] OTHER -> [m |-> M, out |-> Panic]

\* Index / IndexMut for [usize; 2] and (usize, usize): all four bodies are
\* self.data[col + row * self.cols]
index(M, row, col) == VecAt(M, col + row * M.cols)

index_mut(M, row, col) == VecAt(M, col + row * M.cols)

identity_from(result, size, i) ==
    LET step[k \in i..size] ==
            IF k = i THEN result ELSE set(step[k - 1], k - 1, k - 1, One).m
    IN  step[size]

identity(size) ==
    LET z == zero(size, size)
    IN  IF z.kind = "panic" THEN Panic
        ELSE Built(identity_from(z.val, size, 0))

--------------------------------------------------------------------------
(* Row and column views, structural transforms. *)

\* get_row(row): the cells of the row, in order (None when out of range)
get_row(M, row) ==
    IF row < M.rows
    THEN Some([c \in 1..M.cols |-> Deref(M, get_ref(M, row, c - 1).val)])
    ELSE None

\* get_col(col): the cells of the column, in order (None when out of range)
get_col(M, col) ==
    IF col < M.cols
    THEN Some([r \in 1..M.rows |-> Deref(M, get_ref(M, r - 1, col).val)])
    ELSE None

\* Vec::swap(a, b): panics when a or b is not an offset of the Vec
VecSwap(data, a, b) ==
    [data EXCEPT ![a + 1] = data[b + 1], ![b + 1] = data[a + 1]]

\* the loop of swap_rows from column col on; a panic keeps the swaps done
RECURSIVE swap_rows_from(_, _, _, _)
swap_rows_from(M, row1, row2, col) ==
    IF col >= M.cols THEN [m |-> M, out |-> Unit]
    ELSE LET a == col + row1 * M.cols
             b == col + row2 * M.cols
         IN  IF a >= Len(M.data) \/ b >= Len(M.data)
             THEN [m |-> M, out |-> Panic]
             ELSE swap_rows_from([M EXCEPT !.data = VecSwap(M.data, a, b)],
                                 row1, row2, col + 1)

swap_rows(M, row1, row2) == swap_rows_from(M, row1, row2, 0)

\* the loop of swap_cols from row row on; a panic keeps the swaps done
RECURSIVE swap_cols_from(_, _, _, _)
swap_cols_from(M, col1, col2, row) ==
    IF row >= M.rows THEN [m |-> M, out |-> Unit]
    ELSE LET a == col1 + row * M.cols
             b == col2 + row * M.cols
         IN  IF a >= Len(M.data) \/ b >= Len(M.data)
             THEN [m |-> M, out |-> Panic]
             ELSE swap_cols_from([M EXCEPT !.data = VecSwap(M.data, a, b)],
                                 col1, col2, row + 1)

swap_cols(M, col1, col2) == swap_cols_from(M, col1, col2, 0)

\* the data of transpose: column 0 of self, then column 1, ...
RECURSIVE transpose_from(_, _)
transpose_from(M, col) ==
    IF col >= M.cols THEN <<>>
    ELSE get_col(M, col).val \o transpose_from(M, col + 1)

\* transpose that swaps rows and cols and keeps the data in its order
transpose_keep_order(M) == Mat(M.cols, M.rows, M.data)

transpose(M) == Mat(M.cols, M.rows, transpose_from(M, 0))

\* the closures given to apply_mut
Apply(func, x) ==
    CASE func = "flip" -> ESub(One, x)
      [] func = "clear" -> Zero
      [] OTHER -> x

apply_mut(M, func) == [M EXCEPT !.data = [k \in 1..Len(M.data) |-> Apply(func, M.data[k])]]

--------------------------------------------------------------------------
(* std_ops: element-wise operators and the matrix product. *)

ElemOp(opr, a, b) == IF opr = "add" THEN EAdd(a, b) ELSE ESub(a, b)

\* matrix.iter(): the iterator of the backing Vec, through Deref
iter(M) == M.data

\* matrix.into_iter(): the cells of the matrix, row by row
into_iter(M) == M.data

\* the cells an operator iterates over: how = "value" for the operator that
\* consumes its operands, "ref" for the one that borrows them
Cells(how, M) == IF how = "value" THEN into_iter(M) ELSE iter(M)

\* a.zip(b).map(|(a, b)| a op b).collect(): zip stops at the shorter side
ZipWith(opr, d1, d2) ==
    [k \in 1..Min(Len(d1), Len(d2)) |-> ElemOp(opr, d1[k], d2[k])]

\* impl_op!: Add::add and Sub::sub, by value and by reference
impl_op(opr, how, self, rhs) ==
    IF ~(self.rows = rhs.rows) THEN Panic
    ELSE IF ~(self.cols = rhs.cols) THEN Panic
    ELSE Built(Mat(self.rows, self.cols,
                   ZipWith(opr, Cells(how, self), Cells(how, rhs))))

\* self.data.iter_mut().zip(rhs).for_each(|(a, b)| *a op= b): the cells of
\* self the zip reaches are updated
ZipAssign(opr, data, other) ==
    [k \in 1..Len(data) |->
        IF k <= Len(other) THEN ElemOp(opr, data[k], other[k]) ELSE data[k]]

\* impl_op_assign! without the assertion on cols
impl_op_assign_rows_only(opr, how, self, rhs) ==
    IF ~(self.rows = rhs.rows) THEN [m |-> self, out |-> Panic]
    ELSE [m |-> [self EXCEPT !.data = ZipAssign(opr, self.data, Cells(how, rhs))],
          out |-> Unit]

\* impl_op_assign!: AddAssign and SubAssign, by value and by reference
impl_op_assign(opr, how, self, rhs) ==
    IF ~(self.rows = rhs.rows) THEN [m |-> self, out |-> Panic]
    ELSE IF ~(self.cols = rhs.cols) THEN [m |-> self, out |-> Panic]
    ELSE [m |-> [self EXCEPT !.data = ZipAssign(opr, self.data, Cells(how, rhs))],
          out |-> Unit]

neg(self) ==
    Mat(self.rows, self.cols,
        [k \in 1..Len(into_iter(self)) |-> ENeg(into_iter(self)[k])])

\* acc = a0 * b0; for (a, b) in the rest of row.zip(col): acc = acc + a * b
RECURSIVE dot_from(_, _, _, _)
dot_from(acc, row, col, k) ==
    IF k > Min(Len(row), Len(col)) THEN acc
    ELSE dot_from(EAdd(acc, EMul(row[k], col[k])), row, col, k + 1)

\* dot that takes the first pair again in the loop
dot_first_twice(row, col) == dot_from(EMul(row[1], col[1]), row, col, 1)

dot(row, col) == dot_from(EMul(row[1], col[1]), row, col, 2)

\* Mul::mul, by value and by reference
mul(self, rhs) ==
    IF ~(self.cols = rhs.rows) THEN Panic
    ELSE Built(Mat(self.rows, rhs.cols,
                   [k \in 1..(self.rows * rhs.cols) |->
                       dot(get_row(self, (k - 1) \div rhs.cols).val,
                           get_col(rhs, (k - 1) % rhs.cols).val)]))

--------------------------------------------------------------------------
(* inverse: Gauss-Jordan elimination on the augmented len x 2*len matrix.  *)

\* for i in 0..len { for j in 0..len { matrix.set(i, j, self.get(i, j).unwrap()) }
\*                   matrix.set(i, i + len, T::one()) }
\* step n of the loop nest, n counting the (i, j) pairs row by row
RECURSIVE augment_from(_, _, _, _)
augment_from(matrix, self, len, n) ==
    IF n >= len * len THEN matrix
    ELSE LET i == n \div len
             j == n % len
             copied == set(matrix, i, j, get(self, i, j).val).m
             done == IF j = len - 1 THEN set(copied, i, i + len, One).m ELSE copied
         IN  augment_from(done, self, len, n + 1)

\* the pivot search without `i = r`: i stays at rows when a column is used up
RECURSIVE pivot_search_no_reset(_, _, _, _)
pivot_search_no_reset(matrix, r, i, lead) ==
    LET cell == get_ref(matrix, i, lead)
    IN  IF cell.kind # "some" THEN [panic |-> TRUE, i |-> i, lead |-> lead]
        ELSE IF ~IsZero(Deref(matrix, cell.val))
        THEN [panic |-> FALSE, i |-> i, lead |-> lead]
        ELSE IF matrix.rows = i + 1
        THEN IF matrix.cols = lead + 1
             THEN [panic |-> FALSE, i |-> i + 1, lead |-> lead + 1]
             ELSE pivot_search_no_reset(matrix, r, i + 1, lead + 1)
        ELSE pivot_search_no_reset(matrix, r, i + 1, lead)

\* the `while` that looks for a pivot from row i on in column lead:
\* the row and the column it stops at, or a panic of an unwrap
RECURSIVE pivot_search(_, _, _, _)
pivot_search(matrix, r, i, lead) ==
    LET cell == get_ref(matrix, i, lead)
    IN  IF cell.kind # "some" THEN [panic |-> TRUE, i |-> i, lead |-> lead]
        ELSE IF ~IsZero(Deref(matrix, cell.val))
        THEN [panic |-> FALSE, i |-> i, lead |-> lead]
        ELSE IF matrix.rows = i + 1
        THEN IF matrix.cols = lead + 1
             THEN [panic |-> FALSE, i |-> r, lead |-> lead + 1]
             ELSE pivot_search(matrix, r, r, lead + 1)
        ELSE pivot_search(matrix, r, i + 1, lead)

\* if !div.is_zero() { for j in 0..cols { *value = value / div } }
normalize(ty, matrix, r, div) ==
    IF IsZero(div) THEN matrix
    ELSE [matrix EXCEPT !.data =
            [k \in 1..Len(matrix.data) |->
                IF (k - 1) \div matrix.cols = r
                THEN EDiv(ty, matrix.data[k], div)
                ELSE matrix.data[k]]]

\* elimination in the rows below r only (Gauss, not Gauss-Jordan)
eliminate_below(matrix, r, lead) ==
    [matrix EXCEPT !.data =
        [n \in 1..Len(matrix.data) |->
            LET k == (n - 1) \div matrix.cols
                j == (n - 1) % matrix.cols
            IN  IF k <= r THEN matrix.data[n]
                ELSE ESub(matrix.data[n],
                          EMul(get(matrix, r, j).val, get(matrix, k, lead).val))]]

\* for k in 0..rows { if k != r { mul = get(k, lead); for j: row k -= row r * mul } }
eliminate(matrix, r, lead) ==
    [matrix EXCEPT !.data =
        [n \in 1..Len(matrix.data) |->
            LET k == (n - 1) \div matrix.cols
                j == (n - 1) % matrix.cols
            IN  IF k = r THEN matrix.data[n]
                ELSE ESub(matrix.data[n],
                          EMul(get(matrix, r, j).val, get(matrix, k, lead).val))]]

\* the body of `for r in 0..matrix.rows`, from row r on
RECURSIVE reduce_from(_, _, _, _)
reduce_from(ty, matrix, r, lead) ==
    IF r >= matrix.rows THEN Built(matrix)
    ELSE IF matrix.cols <= lead THEN Built(matrix)
    ELSE LET found == pivot_search(matrix, r, r, lead)
         IN  IF found.panic THEN Panic
             ELSE LET swapped == swap_rows(matrix, found.i, r)
                      div == get_ref(swapped.m, r, found.lead)
                  IN  IF swapped.out.kind = "panic" \/ div.kind # "some" THEN Panic
                      ELSE reduce_from(ty,
                               eliminate(normalize(ty, swapped.m, r,
                                                   Deref(swapped.m, div.val)),
                                         r, found.lead),
                               r + 1, found.lead + 1)

\* for i, j in 0..len: result.set(i, j, matrix.get(i, j + len).unwrap())
RECURSIVE extract_from(_, _, _, _)
extract_from(result, matrix, len, n) ==
    IF n >= len * len THEN result
    ELSE LET i == n \div len
             j == n % len
         IN  extract_from(set(result, i, j, get(matrix, i, j + len).val).m,
                          matrix, len, n + 1)

inverse(ty, self) ==
    IF self.rows # self.cols THEN None
    ELSE LET len == self.rows
             matrix == augment_from(zero(len, len * 2).val, self, len, 0)
             reduced == reduce_from(ty, matrix, 0, 0)
         IN  IF reduced.kind = "panic" THEN Panic
             ELSE Some(extract_from(zero(len, len).val, reduced.val, len, 0))

--------------------------------------------------------------------------
(* The state: a program holding one matrix and the result of its last call. *)

VARIABLES
    m,      \* the matrix the program holds (self of the method calls)
    pre,    \* the matrix as it was when the last operation was called
    op,     \* the last operation called
    arg,    \* its arguments
    out     \* what it returned: a value, a fresh matrix, or a panic

vars == <<m, pre, op, arg, out>>

\* arguments for rows, cols and size: 0 is a caller error
Dim == 0..MaxDim

\* row and column indices: MaxDim is out of range for every matrix
Idx == 0..MaxDim

\* the cell values the callers of the general operations write
Bits == {Zero, One}

\* a finite source of n items, One at position p and Zero elsewhere
OneHot(n, p) == [kind |-> "items", items |-> [k \in 1..n |-> IF k = p + 1 THEN One ELSE Zero]]

\* the sources from_iter(rows, cols, _) is given: one item short, exact, one
\* item in excess (each with a One at any position), and unbounded ones
Sources(rows, cols) ==
    { OneHot(n, p) : n \in {rows * cols - 1, rows * cols, rows * cols + 1} \cap Nat,
                      p \in 0..(rows * cols + 1) }
    \cup {[kind |-> "zeros"], [kind |-> "count"]}

\* the right-hand (or left-hand) operands of the binary operators
Operands ==
    UNION { { from_iter(r, c, src).val : src \in {[kind |-> "zeros"], OneHot(r * c, 0)} } :
                r \in 1..MaxDim, c \in 1..MaxDim }
    \cup { identity(n).val : n \in 1..MaxDim }

\* the matrices a program keeps working on: the model's cap on cell values
InCap(M) ==
    /\ M.rows \in 1..MaxDim /\ M.cols \in 1..MaxDim
    /\ \A k \in 1..Len(M.data) : M.data[k] \in Bits

\* the program is between two calls: the last result has been looked at
Idle == op = "idle"

\* the program holds a matrix it has just built with Matrix::zero
Init ==
    /\ \E r \in 1..MaxDim, c \in 1..MaxDim : m = zero(r, c).val
    /\ pre = m
    /\ op = "idle"
    /\ arg = <<>>
    /\ out = Unit

\* let m = Matrix::from_iter(rows, cols, src); the program keeps the matrix
\* it had when the call panics (and when the new one is beyond the cap)
FromIter ==
    /\ Idle
    /\ \E rows \in Dim, cols \in Dim :
      \E src \in Sources(rows, cols) :
        LET res == from_iter(rows, cols, src)
        IN  /\ op' = "from_iter"
            /\ arg' = [rows |-> rows, cols |-> cols, src |-> src]
            /\ out' = res
            /\ m' = IF res.kind = "matrix" /\ InCap(res.val) THEN res.val ELSE m
            /\ pre' = m'

\* the nested array literal of C inner arrays of R items, the p-th item of
\* the literal (in reading order, from 1) One and the others Zero
Literal(R, C, p) ==
    [i \in 1..C |-> [j \in 1..R |-> IF (i - 1) * R + j = p THEN One ELSE Zero]]

\* let m = Matrix::new(values)
New ==
    /\ Idle
    /\ \E R \in Dim, C \in Dim :
      \E p \in 0..(R * C) :
        LET values == Literal(R, C, p)
            res == new(R, C, values)
        IN  /\ op' = "new"
            /\ arg' = [values |-> values, R |-> R, C |-> C]
            /\ out' = res
            /\ m' = IF res.kind = "matrix" /\ InCap(res.val) THEN res.val ELSE m
            /\ pre' = m'

\* let m = Matrix::zero(rows, cols)
ZeroCtor ==
    /\ Idle
    /\ \E rows \in Dim, cols \in Dim :
        LET res == zero(rows, cols)
        IN  /\ op' = "zero"
            /\ arg' = [rows |-> rows, cols |-> cols]
            /\ out' = res
            /\ m' = IF res.kind = "matrix" /\ InCap(res.val) THEN res.val ELSE m
            /\ pre' = m'

\* let m = Matrix::identity(size)
Identity ==
    /\ Idle
    /\ \E size \in Dim :
        LET res == identity(size)
        IN  /\ op' = "identity"
            /\ arg' = [size |-> size]
            /\ out' = res
            /\ m' = IF res.kind = "matrix" /\ InCap(res.val) THEN res.val ELSE m
            /\ pre' = m'

Get ==
    /\ Idle
    /\ \E row \in Idx, col \in Idx :
        /\ op' = "get"
        /\ arg' = [row |-> row, col |-> col]
        /\ out' = get(m, row, col)
        /\ pre' = m
        /\ m' = m

GetRef ==
    /\ Idle
    /\ \E row \in Idx, col \in Idx :
        /\ op' = "get_ref"
        /\ arg' = [row |-> row, col |-> col]
        /\ out' = get_ref(m, row, col)
        /\ pre' = m
        /\ m' = m

\* if let Some(cell) = m.get_mut(row, col) { *cell = value }
GetMut ==
    /\ Idle
    /\ \E row \in Idx, col \in Idx, value \in Bits :
        LET cell == get_mut(m, row, col)
        IN  /\ op' = "get_mut"
            /\ arg' = [row |-> row, col |-> col, value |-> value]
            /\ out' = cell
            /\ pre' = m
            /\ m' = IF cell.kind = "some" THEN Write(m, cell.val, value) ELSE m

Set ==
    /\ Idle
    /\ \E row \in Idx, col \in Idx, value \in Bits :
        LET res == set(m, row, col, value)
        IN  /\ op' = "set"
            /\ arg' = [row |-> row, col |-> col, value |-> value]
            /\ out' = res.out
            /\ pre' = m
            /\ m' = res.m

\* m[(row, col)] and m[[row, col]], read
Index ==
    /\ Idle
    /\ \E row \in Idx, col \in Idx :
        /\ op' = "index"
        /\ arg' = [row |-> row, col |-> col]
        /\ out' = index(m, row, col)
        /\ pre' = m
        /\ m' = m

\* m[(row, col)] = value and m[[row, col]] = value
IndexMut ==
    /\ Idle
    /\ \E row \in Idx, col \in Idx, value \in Bits :
        LET cell == index_mut(m, row, col)
        IN  /\ op' = "index_mut"
            /\ arg' = [row |-> row, col |-> col, value |-> value]
            /\ out' = cell
            /\ pre' = m
            /\ m' = IF cell.kind = "some" THEN Write(m, cell.val, value) ELSE m

SwapRows ==
    /\ Idle
    /\ \E row1 \in Idx, row2 \in Idx :
        LET res == swap_rows(m, row1, row2)
        IN  /\ op' = "swap_rows"
            /\ arg' = [row1 |-> row1, row2 |-> row2]
            /\ out' = res.out
            /\ pre' = m
            /\ m' = res.m

SwapCols ==
    /\ Idle
    /\ \E col1 \in Idx, col2 \in Idx :
        LET res == swap_cols(m, col1, col2)
        IN  /\ op' = "swap_cols"
            /\ arg' = [col1 |-> col1, col2 |-> col2]
            /\ out' = res.out
            /\ pre' = m
            /\ m' = res.m

Transpose ==
    /\ Idle
    /\ op' = "transpose"
    /\ arg' = <<>>
    /\ out' = Built(transpose(m))
    /\ pre' = m
    /\ m' = m

\* m.inverse(), m a Matrix<T> for T the element type ty
Inverse ==
    /\ Idle
    /\ \E ty \in {"int", "rat"} :
        /\ op' = "inverse"
        /\ arg' = [ty |-> ty]
        /\ out' = inverse(ty, m)
        /\ pre' = m
        /\ m' = m

ApplyMut ==
    /\ Idle
    /\ \E func \in {"flip", "clear"} :
        /\ op' = "apply_mut"
        /\ arg' = [func |-> func]
        /\ out' = Unit
        /\ pre' = m
        /\ m' = apply_mut(m, func)

\* m + rhs and &m + &rhs
Add ==
    /\ Idle
    /\ \E rhs \in Operands, how \in {"value", "ref"} :
        /\ op' = "add"
        /\ arg' = [rhs |-> rhs, how |-> how]
        /\ out' = impl_op("add", how, m, rhs)
        /\ pre' = m
        /\ m' = m

\* m - rhs and &m - &rhs
Sub ==
    /\ Idle
    /\ \E rhs \in Operands, how \in {"value", "ref"} :
        /\ op' = "sub"
        /\ arg' = [rhs |-> rhs, how |-> how]
        /\ out' = impl_op("sub", how, m, rhs)
        /\ pre' = m
        /\ m' = m

\* m += rhs and m += &rhs
AddAssign ==
    /\ Idle
    /\ \E rhs \in Operands, how \in {"value", "ref"} :
        LET res == impl_op_assign("add", how, m, rhs)
        IN  /\ InCap(res.m)
            /\ op' = "add_assign"
            /\ arg' = [rhs |-> rhs, how |-> how]
            /\ out' = res.out
            /\ pre' = m
            /\ m' = res.m

\* m -= rhs and m -= &rhs
SubAssign ==
    /\ Idle
    /\ \E rhs \in Operands, how \in {"value", "ref"} :
        LET res == impl_op_assign("sub", how, m, rhs)
        IN  /\ InCap(res.m)
            /\ op' = "sub_assign"
            /\ arg' = [rhs |-> rhs, how |-> how]
            /\ out' = res.out
            /\ pre' = m
            /\ m' = res.m

\* -m
Neg ==
    /\ Idle
    /\ op' = "neg"
    /\ arg' = <<>>
    /\ out' = Built(neg(m))
    /\ pre' = m
    /\ m' = m

\* m * rhs and &m * &rhs
Mul ==
    /\ Idle
    /\ \E rhs \in Operands :
        /\ op' = "mul"
        /\ arg' = [rhs |-> rhs]
        /\ out' = mul(m, rhs)
        /\ pre' = m
        /\ m' = m

\* lhs * m and &lhs * &m
MulLeft ==
    /\ Idle
    /\ \E lhs \in Operands :
        /\ op' = "mul_left"
        /\ arg' = [lhs |-> lhs]
        /\ out' = mul(lhs, m)
        /\ pre' = m
        /\ m' = m

\* the fresh matrix an operation returned, if any
Returned ==
    IF out.kind = "matrix" \/ (op = "inverse" /\ out.kind = "some")
    THEN {out.val} ELSE {}

\* let m = <the matrix the last operation returned>, and go on
Adopt ==
    /\ ~Idle
    /\ \E M \in Returned :
        /\ InCap(M)
        /\ op' = "idle"
        /\ arg' = <<>>
        /\ out' = Unit
        /\ pre' = M
        /\ m' = M

\* go on with the matrix as the last operation left it (also after a panic
\* that was caught: the matrix is then as the panic left it)
Proceed ==
    /\ ~Idle
    /\ op' = "idle"
    /\ arg' = <<>>
    /\ out' = Unit
    /\ pre' = m
    /\ m' = m

Next ==
    \/ New \/ FromIter \/ ZeroCtor \/ Identity
    \/ Get \/ GetRef \/ GetMut \/ Set \/ Index \/ IndexMut
    \/ SwapRows \/ SwapCols \/ Transpose \/ Inverse \/ ApplyMut
    \/ Add \/ Sub \/ AddAssign \/ SubAssign \/ Neg \/ Mul \/ MulLeft
    \/ Adopt \/ Proceed

Spec == Init /\ [][Next]_vars

--------------------------------------------------------------------------
(* inverse as a function of its input: every matrix of up to MaxDim rows   *)
(* and columns with cells 0, 1 or 2, in both element types.                *)

InverseCells == {E(0), E(1), E(2)}

InitInv ==
    /\ \E r \in 1..MaxDim, c \in 1..MaxDim :
          \E d \in [1..(r * c) -> InverseCells] : m = Mat(r, c, d)
    /\ pre = m
    /\ op = "idle"
    /\ arg = <<>>
    /\ out = Unit

NextInv == Inverse

SpecInv == InitInv /\ [][NextInv]_vars

--------------------------------------------------------------------------
(* Properties. *)

InBounds(M, row, col) == row < M.rows /\ col < M.cols

\* the flat offset of cell (row, col) in the row-major layout of M
Offset(M, row, col) == col + row * M.cols

\* C1: get, get_ref and get_mut return the element stored at flat offset
\* col + row * cols when row < rows and col < cols (get its value, get_ref
\* and get_mut a reference to that offset, so that get and get_ref agree),
\* and return None, without a panic, whenever row >= rows or col >= cols.
C1_CheckedAccess ==
    op \in {"get", "get_ref", "get_mut"} =>
        IF InBounds(pre, arg.row, arg.col)
        THEN /\ out.kind = "some"
             /\ op = "get" => out.val = pre.data[Offset(pre, arg.row, arg.col) + 1]
             /\ op # "get" => out.val = Offset(pre, arg.row, arg.col)
             /\ get(pre, arg.row, arg.col).val
                    = Deref(pre, get_ref(pre, arg.row, arg.col).val)
        ELSE out.kind = "none"

\* a get of the last cell of a 2x2 matrix whose cells are not all equal
C1_Witness ==
    /\ op = "get" /\ arg.row = 1 /\ arg.col = 1
    /\ pre.rows = 2 /\ pre.cols = 2
    /\ pre.data[4] = One /\ pre.data[2] = Zero /\ pre.data[3] = Zero
    /\ out.kind = "some" /\ out.val = One

\* C2: set returns false exactly when (row, col) is out of bounds, and then
\* leaves rows, cols and every cell unchanged and does not panic; in bounds
\* it returns true, a following get(row, col) returns the value written, and
\* every other cell and the dimensions are unchanged.
C2_Set ==
    op = "set" =>
        LET inb == InBounds(pre, arg.row, arg.col)
        IN  /\ out.kind = "bool"
            /\ out.val = inb
            /\ ~inb => m = pre
            /\ inb =>
                /\ get(m, arg.row, arg.col).kind = "some"
                /\ get(m, arg.row, arg.col).val = arg.value
                /\ m.rows = pre.rows /\ m.cols = pre.cols
                /\ Len(m.data) = Len(pre.data)
                /\ \A r \in 0..(pre.rows - 1), c \in 0..(pre.cols - 1) :
                      (r # arg.row \/ c # arg.col) => get(m, r, c) = get(pre, r, c)

\* a set that changed cell (1, 0) of a 2x2 matrix
C2_Witness ==
    /\ op = "set" /\ arg.row = 1 /\ arg.col = 0 /\ arg.value = One
    /\ pre.rows = 2 /\ pre.cols = 2 /\ pre.data[3] = Zero
    /\ out.kind = "bool" /\ out.val = TRUE
    /\ m.data[3] = One

WellFormed(M) == Len(M.data) = M.rows * M.cols /\ M.rows > 0 /\ M.cols > 0

\* C3: every matrix the program holds or an operation returned, after any
\* sequence of operations, failed ones included, has
\* data.length = rows * cols, rows > 0 and cols > 0.
C3_StructuralInvariant ==
    /\ WellFormed(m)
    /\ \A M \in Returned : WellFormed(M)

\* swap_cols panicked after it had already swapped cells of the matrix
C3_Witness ==
    /\ op = "swap_cols" /\ out.kind = "panic"
    /\ m # pre
    /\ WellFormed(m)

\* the sequence s without its j-th item
Without(s, j) == SubSeq(s, 1, j - 1) \o SubSeq(s, j + 1, Len(s))

\* the determinant of the minor of M with rows rs and columns cs (sequences
\* of 0-based indices), by Laplace expansion along its first row; the cells
\* of M are integers
RECURSIVE Minor(_, _, _)
Minor(M, rs, cs) ==
    IF Len(rs) = 0 THEN 1
    ELSE LET term[j \in 0..Len(cs)] ==
                 IF j = 0 THEN 0
                 ELSE term[j - 1]
                      + (IF j % 2 = 1 THEN 1 ELSE -1)
                        * M.data[Offset(M, rs[1], cs[j]) + 1][1]
                        * Minor(M, Tail(rs), Without(cs, j))
         IN  term[Len(cs)]

Det(M) == Minor(M, [k \in 1..M.rows |-> k - 1], [k \in 1..M.cols |-> k - 1])

\* a square matrix with integer cells that has an inverse over the rationals
Invertible(M) == M.rows = M.cols /\ Det(M) # 0

\* M * X is the identity matrix of M's size
IsRightInverse(M, X) == mul(M, X) = identity(M.rows)

\* C4 as claimed: for every invertible square matrix over an exact element
\* type, integer or rational, inverse is present and M * inverse(M) is
\* exactly the identity matrix.
C4_InverseExact_AnyExactType ==
    (op = "inverse" /\ Invertible(pre)) =>
        /\ out.kind = "some"
        /\ IsRightInverse(pre, out.val)

\* C4 amended: for every invertible square matrix over an exact element
\* type whose division is exact (the rationals), inverse is present and
\* M * inverse(M) is exactly the identity matrix.
C4_InverseExact_Rational ==
    (op = "inverse" /\ arg.ty = "rat" /\ Invertible(pre)) =>
        /\ out.kind = "some"
        /\ IsRightInverse(pre, out.val)

\* the inverse of a 2x2 rational matrix that needs a row swap and has a
\* determinant other than 1 and -1, so that the inverse has fractions
C4_Witness ==
    /\ op = "inverse" /\ arg.ty = "rat"
    /\ pre.rows = 2 /\ pre.cols = 2
    /\ pre.data[1] = Zero
    /\ Det(pre) \notin {-1, 0, 1}
    /\ out.kind = "some"
    /\ \E k \in 1..4 : out.val.data[k][2] # 1

\* C5: inverse never panics: it returns None exactly when rows # cols, and
\* for every square N x N matrix, singular ones included, the elimination
\* runs to completion and an N x N matrix is returned.
C5_InverseTotal ==
    op = "inverse" =>
        /\ out.kind # "panic"
        /\ out.kind = "none" <=> pre.rows # pre.cols
        /\ pre.rows = pre.cols =>
              /\ out.kind = "some"
              /\ out.val.rows = pre.rows /\ out.val.cols = pre.rows
              /\ Len(out.val.data) = pre.rows * pre.rows

\* the inverse of a singular 2x2 matrix with a zero first column: the pivot
\* search runs off the column and moves lead on
C5_Witness ==
    /\ op = "inverse"
    /\ pre.rows = 2 /\ pre.cols = 2
    /\ pre.data[1] = Zero /\ pre.data[3] = Zero /\ pre.data[2] # Zero
    /\ out.kind = "some"

\* C6 as claimed: m[(row, col)] and m[[row, col]], read or written, panic
\* for every out-of-bounds coordinate (row >= rows or col >= cols), and
\* neither return nor modify a cell then.
C6_IndexOutOfBoundsPanics ==
    (op \in {"index", "index_mut"} /\ ~InBounds(pre, arg.row, arg.col)) =>
        /\ out.kind = "panic"
        /\ m = pre

\* C7: transpose of an R x C matrix is a C x R matrix whose element (i, j)
\* is element (j, i) of the source, the source is unchanged, and the
\* transpose of the result is the source again, in shape and in every cell.
C7_Transpose ==
    op = "transpose" =>
        /\ out.kind = "matrix"
        /\ out.val.rows = pre.cols /\ out.val.cols = pre.rows
        /\ \A i \in 0..(pre.cols - 1), j \in 0..(pre.rows - 1) :
              /\ get(out.val, i, j).kind = "some"
              /\ get(out.val, i, j) = get(pre, j, i)
        /\ m = pre
        /\ transpose(out.val) = pre

\* the transpose of a 2x2 matrix that is not symmetric
C7_Witness ==
    /\ op = "transpose"
    /\ pre.rows = 2 /\ pre.cols = 2
    /\ pre.data[2] = One /\ pre.data[3] = Zero
    /\ out.kind = "matrix"
    /\ out.val.data[2] = Zero /\ out.val.data[3] = One

\* the operands of the last binary operation do not fit
ShapeMismatch ==
    CASE op \in {"add", "sub", "add_assign", "sub_assign"} ->
             pre.rows # arg.rhs.rows \/ pre.cols # arg.rhs.cols
      [] op = "mul" -> pre.cols # arg.rhs.rows
      [] op = "mul_left" -> arg.lhs.cols # pre.rows
      [] OTHER -> FALSE

\* C8: add, sub, their in-place variants and the matrix product panic
\* whenever the operand shapes do not fit (rows or cols differ for add and
\* sub, lhs.cols # rhs.rows for the product); a failing in-place add or sub
\* has not modified any cell of the left operand.
C8_ShapeMismatchPanics ==
    ShapeMismatch =>
        /\ out.kind = "panic"
        /\ m = pre

\* m += rhs with the rows of rhs as many as those of m and the columns not
C8_Witness ==
    /\ op = "add_assign"
    /\ pre.rows = arg.rhs.rows /\ pre.cols # arg.rhs.cols
    /\ Len(pre.data) > Len(arg.rhs.data)
    /\ out.kind = "panic"

\* the n x n matrix with One at (i, i) and Zero elsewhere
IsIdentity(M, n) ==
    /\ M.rows = n /\ M.cols = n /\ Len(M.data) = n * n
    /\ \A i \in 0..(n - 1), j \in 0..(n - 1) :
          M.data[j + i * n + 1] = IF i = j THEN One ELSE Zero

\* C9: identity(n) is the n x n matrix with one at (i, i) and zero
\* elsewhere, and for every R x C matrix M, M * identity(C) = M and
\* identity(R) * M = M, in shape and in every cell.
C9_IdentityNeutral ==
    /\ (op = "identity" /\ arg.size > 0) =>
          out.kind = "matrix" /\ IsIdentity(out.val, arg.size)
    /\ (op = "mul" /\ IsIdentity(arg.rhs, pre.cols)) => out = Built(pre)
    /\ (op = "mul_left" /\ IsIdentity(arg.lhs, pre.rows)) => out = Built(pre)

\* the product of a 2x2 matrix with ones off the diagonal and identity(2)
C9_Witness ==
    /\ op = "mul"
    /\ pre.rows = 2 /\ pre.cols = 2
    /\ pre.data[2] = One /\ pre.data[3] = One /\ pre.data[4] = One
    /\ IsIdentity(arg.rhs, 2)
    /\ out = Built(pre)

\* the number of items of a source (unbounded sources have enough)
Enough(src, n) == src.kind = "items" => Len(src.items) >= n

\* the item of a source at position k (from 0)
Item(src, k) ==
    CASE src.kind = "count" -> E(k)
      [] src.kind = "zeros" -> Zero
      [] OTHER -> src.items[k + 1]

\* C10: from_iter(rows, cols, source) with rows > 0, cols > 0 and a source
\* of at least rows * cols items builds a rows x cols matrix whose cell
\* (r, c) is the source item at position c + r * cols, taking the first
\* rows * cols items and ignoring the rest; it panics when rows = 0,
\* cols = 0 or the source has fewer than rows * cols items.
C10_FromIter ==
    op = "from_iter" =>
        IF arg.rows = 0 \/ arg.cols = 0 \/ ~Enough(arg.src, arg.rows * arg.cols)
        THEN out.kind = "panic"
        ELSE /\ out.kind = "matrix"
             /\ out.val.rows = arg.rows /\ out.val.cols = arg.cols
             /\ Len(out.val.data) = arg.rows * arg.cols
             /\ \A r \in 0..(arg.rows - 1), c \in 0..(arg.cols - 1) :
                   /\ get(out.val, r, c).kind = "some"
                   /\ get(out.val, r, c).val = Item(arg.src, c + r * arg.cols)

\* a 2x2 matrix built from five items, the fifth of which is left out
C10_Witness ==
    /\ op = "from_iter" /\ arg.rows = 2 /\ arg.cols = 2
    /\ arg.src.kind = "items" /\ Len(arg.src.items) = 5
    /\ arg.src.items[5] = One
    /\ out.kind = "matrix"
    /\ out.val.data = <<Zero, Zero, Zero, Zero>>

\* the last call was a swap with an index that is not a row (swap_rows) or
\* not a column (swap_cols) of the matrix
SwapOutOfRange ==
    CASE op = "swap_rows" -> arg.row1 >= pre.rows \/ arg.row2 >= pre.rows
      [] op = "swap_cols" -> arg.col1 >= pre.cols \/ arg.col2 >= pre.cols
      [] OTHER -> FALSE

\* C11 as claimed: swap_rows and swap_cols called with any out-of-range
\* index panic before any cell has been modified: the matrix at the point
\* of failure equals the matrix before the call.
C11_SwapFailsBeforeMutation ==
    SwapOutOfRange =>
        /\ out.kind = "panic"
        /\ m = pre

\* C12 as claimed: Matrix::new of a literal of k inner arrays of m items
\* each (k, m > 0) returns a matrix of k rows and m columns whose cell
\* (i, j) is the j-th item of the i-th inner array.  In new::<R, C> the
\* literal has type [[T; R]; C]: k is C and m is R.
C12_NewRowsAreInnerArrays ==
    (op = "new" /\ arg.C > 0 /\ arg.R > 0) =>
        /\ out.kind = "matrix"
        /\ out.val.rows = arg.C
        /\ out.val.cols = arg.R
        /\ \A i \in 0..(arg.C - 1), j \in 0..(arg.R - 1) :
              get(out.val, i, j) = Some(arg.values[i + 1][j + 1])

==========================================================================
